---- MODULE Spec2Model ----
(***************************************************************************)
(* Model of src/Google_search_agent.py: a Streamlit page that keeps a      *)
(* conversation in st.session_state.messages and, on each submitted query, *)
(* runs process_chat(): a loop of LLM calls whose JSON replies are         *)
(* dispatched on their "step" field (plan / action / output / other).      *)
(*                                                                         *)
(* Representation.                                                         *)
(*  - A Python str that is not looked into is a sequence of chunks (TLA+   *)
(*    strings); concatenation is \o.  String literals of the source that   *)
(*    hold emoji or a backquote carry an ASCII tag in their place          *)
(*    ("[wx]", "[bq]").                                                    *)
(*  - A str that json.loads is applied to is a record: either JsonText     *)
(*    (a JSON document of some value written in some layout) or PlainText  *)
(*    (not a JSON document).  json.dumps always writes the "python"        *)
(*    layout, so dumps(loads(t)) = t only for documents in that layout.    *)
(*  - A dict is a TLA+ record whose DOMAIN is the set of keys present.     *)
(*  - dict.get(k) yields an optional value: {} for None, {v} otherwise.    *)
(*  - The external world (the LLM endpoint, the two HTTP endpoints, the    *)
(*    user) is a nondeterministic choice from the finite sets below.       *)
(***************************************************************************)
EXTENDS Integers, Sequences, FiniteSets, TLC

VARIABLES
    messages,   \* st.session_state.messages
    pc,         \* "idle": script finished; "call": at line 116; "http": inside requests.get of a tool
    status,     \* how process_chat of the current script run stands / ended
    exc,        \* name of the unhandled exception that ended the run, or "none"
    ui,         \* notices rendered by the current script run, in order
    sent,       \* the messages argument of the latest chat.completions.create call
    reply,      \* the reply of the latest LLM call (line 121)
    calls,      \* number of LLM calls issued in the session
    runs,       \* number of process_chat runs started in the session
    runStart,   \* Len(messages) when the current script run reached line 163
    pending,    \* the tool invocation whose HTTP request is in flight
    toolLog,    \* every tool invocation of the session: [fn, arg, url]
    response,   \* the outcome of requests.get in the tool call of this iteration
    widgets     \* ask_btn and user_query as the current script run read them (lines 108, 110)

vars == <<messages, pc, status, exc, ui, sent, reply, calls, runs, runStart, pending, toolLog,
          response, widgets>>

----------------------------------------------------------------------------
(* Bounds of the exploration *)

MaxCalls == 2
MaxRuns == 2

----------------------------------------------------------------------------
(* Python values *)

PlainText(chars) == [type |-> "str", json |-> FALSE, chars |-> chars]
JsonText(layout, value) == [type |-> "str", json |-> TRUE, layout |-> layout, value |-> value]
PyNone == [type |-> "NoneType"]
Unset == [type |-> "unset"]

Dict(d) == [type |-> "dict", d |-> d]
JStr(s) == [type |-> "str", s |-> s]
JList(l) == [type |-> "list", l |-> l]

\* dict.get(key): None is {}, a value v is {v}
Get(d, key) == IF key \in DOMAIN d THEN {d[key]} ELSE {}

\* the value of a non-None optional
The(opt) == CHOOSE v \in opt : TRUE

\* f"{x}" for an optional str: str(None) is "None"
Format(opt) == IF opt = {} THEN <<"None">> ELSE The(opt)

\* json.loads(reply): [ok, value] or the exception raised
json_loads(text) ==
    IF text.type # "str" THEN [ok |-> FALSE, exc |-> "TypeError"]
    ELSE IF ~text.json THEN [ok |-> FALSE, exc |-> "JSONDecodeError"]
    ELSE [ok |-> TRUE, value |-> text.value]

\* json.dumps(value): the document of value in json.dumps' own layout
json_dumps(value) == JsonText("python", value)

Min(a, b) == IF a < b THEN a ELSE b

Last(s) == s[Len(s)]

IsPrefix(s, t) == Len(s) <= Len(t) /\ SubSeq(t, 1, Len(s)) = s

----------------------------------------------------------------------------
(* Tool functions.  A tool call is a pure function of its argument and of  *)
(* the outcome of its one requests.get: it returns a str or raises.        *)

Return(s) == [kind |-> "return", value |-> s]
Raise(e) == [kind |-> "raise", exc |-> e]

Whitespace == {" ", "\n", "\t"}

RECURSIVE lstrip(_)
lstrip(s) == IF s # <<>> /\ Head(s) \in Whitespace THEN lstrip(Tail(s)) ELSE s

RECURSIVE rstrip(_)
rstrip(s) ==
    IF s # <<>> /\ Last(s) \in Whitespace THEN rstrip(SubSeq(s, 1, Len(s) - 1)) ELSE s

\* str.strip()
strip(s) == rstrip(lstrip(s))

weather_url(city) == <<"https://wttr.in/">> \o Format(city) \o <<"?format=%C+%t">>

\* get_weather that embeds response.text without .strip()
get_weather_unstripped(city, http) ==
    IF http.raised THEN Raise(http.exc)
    ELSE IF http.status_code = 200
         THEN Return(<<"[wx] The weather in **">> \o Format(city) \o <<"** is [bq]">>
                     \o http.text \o <<"[bq].">>)
         ELSE Return(<<"[x] Unable to fetch weather at the moment.">>)

get_weather(city, http) ==
    IF http.raised THEN Raise(http.exc)
    ELSE IF http.status_code = 200
         THEN Return(<<"[wx] The weather in **">> \o Format(city) \o <<"** is [bq]">>
                     \o strip(http.text) \o <<"[bq].">>)
         ELSE Return(<<"[x] Unable to fetch weather at the moment.">>)

search_url(query) ==
    <<"https://www.googleapis.com/customsearch/v1?q=">> \o Format(query)
        \o <<"&key=", "GOOGLE_API_KEY", "&cx=", "GOOGLE_CSE_ID">>

\* "sep".join(parts)
RECURSIVE join(_, _)
join(sep, parts) ==
    IF parts = <<>> THEN <<>>
    ELSE IF Len(parts) = 1 THEN Head(parts)
    ELSE Head(parts) \o sep \o join(sep, Tail(parts))

\* FirstThree that keeps the last three items
FirstThree_last(items) == SubSeq(items, Len(items) - Min(3, Len(items)) + 1, Len(items))

\* items[:3]
FirstThree(items) == SubSeq(items, 1, Min(3, Len(items)))

\* f"[*] **{item['title']}**\n[link] {item['link']}"
result_block(item) == <<"[*] **">> \o item.title \o <<"**", "\n", "[link] ">> \o item.link

google_search(query, http) ==
    IF http.raised THEN Raise(http.exc)
    ELSE IF http.status_code = 200
         THEN IF http.json = {} THEN Raise("JSONDecodeError")
              ELSE LET data == The(http.json)
                       items == IF "items" \in DOMAIN data THEN data.items ELSE <<>>
                       top == FirstThree(items)
                   IN  IF \E i \in 1..Len(top) : ~({"title", "link"} \subseteq DOMAIN top[i])
                       THEN Raise("KeyError")
                       ELSE LET text == join(<<"\n", "\n">>,
                                             [i \in 1..Len(top) |-> result_block(top[i])])
                            IN  Return(IF text = <<>> THEN <<"No results found.">> ELSE text)
         ELSE Return(<<"[x] Search failed: ", ToString(http.status_code), " - ">> \o http.text)

\* the tool registry: name -> description (the callables are the operators above)
available_tools ==
    [get_weather |-> <<"Takes a city name and returns current weather.">>,
     google_search |-> <<"Takes a query and returns top 3 Google search results.">>]

\* InvokeTool that dispatches every name to the first tool
InvokeTool_first(name, arg, http) == get_weather(arg, http)

\* available_tools[name]["fn"](arg), given the outcome of its HTTP request
InvokeTool(name, arg, http) ==
    IF name = "get_weather" THEN get_weather(arg, http) ELSE google_search(arg, http)

ToolUrl(name, arg) == IF name = "get_weather" THEN weather_url(arg) ELSE search_url(arg)

system_prompt ==
    PlainText(<<"You are a helpful AI assistant. Think step-by-step. ... Tools:",
                "get_weather">> \o available_tools.get_weather
              \o <<"google_search">> \o available_tools.google_search)

----------------------------------------------------------------------------
(* The inputs the environment can supply *)

\* what the user has typed in the text input when the script reruns
Queries == {PlainText(<<>>), PlainText(<<"What's the weather in Lahore?">>)}

\* Python truthiness of user_query: the empty str is falsy
Truthy(text) == text.chars # <<>>

\* replies of the LLM endpoint that are JSON objects
PlanReplies ==
    {JsonText("indented", Dict([step |-> "plan", content |-> <<"look up the weather">>])),
     JsonText("python", Dict([step |-> "plan", content |-> <<"search the web">>]))}

ActionReplies ==
    {JsonText("indented", Dict([step |-> "action", function |-> "get_weather",
                               input |-> <<"Lahore">>])),
     JsonText("python", Dict([step |-> "action", function |-> "get_weather"])),
     JsonText("python", Dict([step |-> "action", content |-> <<"searching">>,
                             function |-> "google_search", input |-> <<"tla+ tools">>])),
     JsonText("python", Dict([step |-> "action", function |-> "calculator",
                             input |-> <<"2+2">>])),
     JsonText("indented", Dict([step |-> "action", content |-> <<"acting">>]))}

OutputReplies ==
    {JsonText("indented", Dict([step |-> "output", content |-> <<"It is sunny in Lahore.">>])),
     JsonText("python", Dict([step |-> "output", content |-> <<"Done.">>]))}

OtherReplies ==
    {JsonText("python", Dict([step |-> "observe", content |-> <<"I saw the result">>])),
     JsonText("python", Dict([step |-> "final", content |-> <<"It is sunny.">>])),
     JsonText("indented", Dict([content |-> <<"no step here">>]))}

NoContentReplies ==
    {JsonText("python", Dict([step |-> "plan"])),
     JsonText("python", Dict([step |-> "output", function |-> "get_weather"]))}

\* replies that are JSON documents but not objects
NonDictReplies ==
    {JsonText("python", JStr(<<"hello">>)),
     JsonText("indented", JList(<<"plan", "output">>))}

\* replies that are not JSON documents
NonJsonReplies == {PlainText(<<"hello">>), PlainText(<<"Sure! {step: plan}">>)}

DictReplies == PlanReplies \cup ActionReplies \cup OutputReplies \cup OtherReplies
                   \cup NoContentReplies

Replies == DictReplies \cup NonDictReplies \cup NonJsonReplies \cup {PyNone}

\* outcomes of requests.get: a response, or an exception of the transport
Response(code, text, json) ==
    [raised |-> FALSE, status_code |-> code, text |-> text, json |-> json]
TransportError == [raised |-> TRUE, exc |-> "ConnectionError"]

WeatherOutcomes ==
    {Response(200, <<"Sunny +25C">>, {}),
     Response(200, <<" ", "Partly cloudy +18C", "\n">>, {}),
     Response(404, <<"Unknown location">>, {}),
     TransportError}

Item(n) == [title |-> <<"Title ", ToString(n)>>, link |-> <<"https://example.org/", ToString(n)>>]

SearchOutcomes ==
    {Response(200, <<"{items: [...]}">>, {[items |-> [i \in 1..n |-> Item(i)]]}) : n \in {0, 2, 3, 4}}
    \cup {Response(200, <<"{}">>, {[kind |-> <<"customsearch#search">>]}),
          Response(200, <<"{items: [{title}]}">>, {[items |-> <<[title |-> <<"Title 1">>]>>]}),
          Response(200, <<"<html>">>, {}),
          Response(403, <<"{error: forbidden}">>, {[error |-> <<"forbidden">>]}),
          TransportError}

HttpOutcomes(name) == IF name = "get_weather" THEN WeatherOutcomes ELSE SearchOutcomes

----------------------------------------------------------------------------
(* State changes shared by the branches of process_chat *)

Msg(role, content) == [role |-> role, content |-> content]

Notice(kind, text) == [kind |-> kind, text |-> text]

NoPending == [fn |-> "none", arg |-> {}]

NoResponse == [raised |-> FALSE, status_code |-> 0, text |-> <<>>, json |-> {}]

NoRequest == [model |-> "none", temperature |-> "none", messages |-> <<>>]

\* CompletionRequest that sends the system prompt and the latest Message only
CompletionRequest_latest(msgs) ==
    [model |-> "gpt-4o", temperature |-> "0.5", messages |-> <<msgs[1], Last(msgs)>>]

\* the arguments of client.chat.completions.create
CompletionRequest(msgs) == [model |-> "gpt-4o", temperature |-> "0.5", messages |-> msgs]

\* ParsedMessage that files the reply under the role user
ParsedMessage_user(parsed) == Msg("user", json_dumps(parsed))

\* line 130: the assistant Message holding json.dumps(parsed)
ParsedMessage(parsed) == Msg("assistant", json_dumps(parsed))

\* ObserveMessage that stores the tool output as it is, without json.dumps
ObserveMessage_raw(tool_output) == Msg("assistant", PlainText(tool_output))

\* lines 142-145: the assistant Message holding the observe step
ObserveMessage(tool_output) ==
    Msg("assistant", json_dumps(Dict([step |-> "observe", content |-> tool_output])))

\* line 152: the markup of the final answer
FinalMarkup(content) ==
    <<"<div style=...>", "<strong>[bot] Final Answer:</strong><br>">> \o content \o <<"</div>">>

\* lines 116-121: one chat.completions.create call on the conversation
LLMCall ==
    /\ pc = "call"
    /\ calls < MaxCalls
    /\ calls' = calls + 1
    /\ sent' = CompletionRequest(messages)
    /\ response' = NoResponse
    /\ UNCHANGED widgets

\* `continue`: back to line 116
Continue ==
    /\ pc' = "call"
    /\ UNCHANGED <<status, exc>>

\* `break`: process_chat returns and the script run ends
Break(how) ==
    /\ pc' = "idle"
    /\ status' = how
    /\ UNCHANGED exc

\* an exception nobody catches: the script run ends, Streamlit shows the exception
Abort(e) ==
    /\ pc' = "idle"
    /\ status' = "fault"
    /\ exc' = e
    /\ ui' = Append(ui, Notice("exception", <<e>>))

----------------------------------------------------------------------------
(* The script: one run per user interaction *)

Init ==
    /\ messages = <<Msg("system", system_prompt)>>
    /\ pc = "idle"
    /\ status = "none"
    /\ exc = "none"
    /\ ui = <<>>
    /\ sent = NoRequest
    /\ reply = Unset
    /\ calls = 0
    /\ runs = 0
    /\ runStart = 1
    /\ pending = NoPending
    /\ toolLog = <<>>
    /\ response = NoResponse
    /\ widgets = [ask_btn |-> FALSE, user_query |-> PlainText(<<>>)]

\* Submit that starts the Conversation afresh, as if line 102 had no guard
Submit_resets(ask_btn, user_query) ==
    /\ pc = "idle"
    /\ runs < MaxRuns
    /\ ask_btn /\ Truthy(user_query)
    /\ messages' = <<Msg("system", system_prompt), Msg("user", user_query)>>
    /\ runStart' = 2
    /\ runs' = runs + 1
    /\ pc' = "call"
    /\ status' = "running"
    /\ exc' = "none"
    /\ ui' = <<>>
    /\ response' = NoResponse
    /\ widgets' = [ask_btn |-> ask_btn, user_query |-> user_query]
    /\ UNCHANGED <<sent, reply, calls, pending, toolLog>>

\* lines 161-163 taken: the query is appended and process_chat starts
Submit(ask_btn, user_query) ==
    /\ pc = "idle"
    /\ runs < MaxRuns
    /\ ask_btn /\ Truthy(user_query)
    /\ messages' = Append(messages, Msg("user", user_query))
    /\ runStart' = Len(messages) + 1
    /\ runs' = runs + 1
    /\ pc' = "call"
    /\ status' = "running"
    /\ exc' = "none"
    /\ ui' = <<>>
    /\ response' = NoResponse
    /\ widgets' = [ask_btn |-> ask_btn, user_query |-> user_query]
    /\ UNCHANGED <<sent, reply, calls, pending, toolLog>>

\* NoSubmit whose line 161 tests ask_btn alone: an empty query is submitted
NoSubmit_asks(ask_btn, user_query) ==
    /\ pc = "idle"
    /\ ~(ask_btn /\ Truthy(user_query))
    /\ widgets' = [ask_btn |-> ask_btn, user_query |-> user_query]
    /\ IF ask_btn /\ runs < MaxRuns
       THEN /\ messages' = Append(messages, Msg("user", user_query))
            /\ runStart' = Len(messages) + 1
            /\ runs' = runs + 1
            /\ pc' = "call"
            /\ status' = "running"
            /\ exc' = "none"
            /\ ui' = <<>>
            /\ response' = NoResponse
            /\ UNCHANGED <<sent, reply, calls, pending, toolLog>>
       ELSE /\ status' = "none"
            /\ exc' = "none"
            /\ ui' = <<>>
            /\ runStart' = Len(messages)
            /\ UNCHANGED <<messages, pc, sent, reply, calls, runs, pending, toolLog, response>>

\* line 161 not taken: the page is redrawn and nothing else happens
NoSubmit(ask_btn, user_query) ==
    /\ pc = "idle"
    /\ ~(ask_btn /\ Truthy(user_query))
    /\ status' = "none"
    /\ exc' = "none"
    /\ ui' = <<>>
    /\ runStart' = Len(messages)
    /\ widgets' = [ask_btn |-> ask_btn, user_query |-> user_query]
    /\ UNCHANGED <<messages, pc, sent, reply, calls, runs, pending, toolLog, response>>

\* LLMFault that swallows the exception and tries the call again
LLMFault_retries ==
    /\ LLMCall
    /\ reply' = Unset
    /\ Continue
    /\ UNCHANGED <<messages, ui, runs, runStart, pending, toolLog>>

\* line 116 raises (transport, authentication, rate limit ...)
LLMFault ==
    /\ LLMCall
    /\ reply' = Unset
    /\ Abort("APIError")
    /\ UNCHANGED <<messages, runs, runStart, pending, toolLog>>

\* line 124 raises something other than JSONDecodeError (reply is None)
ReplyNotStr(r) ==
    /\ LLMCall
    /\ reply' = r
    /\ ~json_loads(r).ok /\ json_loads(r).exc # "JSONDecodeError"
    /\ Abort(json_loads(r).exc)
    /\ UNCHANGED <<messages, runs, runStart, pending, toolLog>>

\* ReplyNotJSON that stores the reply re-serialized as a JSON string
ReplyNotJSON_dumps(r) ==
    /\ LLMCall
    /\ reply' = r
    /\ ~json_loads(r).ok /\ json_loads(r).exc = "JSONDecodeError"
    /\ ui' = Append(ui, Notice("error", <<"[warn] LLM response was not in expected JSON format.">>))
    /\ messages' = Append(messages, Msg("assistant", json_dumps(JStr(r.chars))))
    /\ Break("error-parse")
    /\ UNCHANGED <<runs, runStart, pending, toolLog>>

\* lines 125-128
ReplyNotJSON(r) ==
    /\ LLMCall
    /\ reply' = r
    /\ ~json_loads(r).ok /\ json_loads(r).exc = "JSONDecodeError"
    /\ ui' = Append(ui, Notice("error", <<"[warn] LLM response was not in expected JSON format.">>))
    /\ messages' = Append(messages, Msg("assistant", r))
    /\ Break("error-parse")
    /\ UNCHANGED <<runs, runStart, pending, toolLog>>

\* lines 130-131 when parsed has no .get (a JSON string, list, number ...)
ReplyNotDict(r) ==
    /\ LLMCall
    /\ reply' = r
    /\ json_loads(r).ok
    /\ LET parsed == json_loads(r).value
       IN  /\ parsed.type # "dict"
           /\ messages' = Append(messages, ParsedMessage(parsed))
           /\ Abort("AttributeError")
    /\ UNCHANGED <<runs, runStart, pending, toolLog>>

\* the replies json.loads turns into a dict whose "step" is the given optional
IsStep(r, step) ==
    /\ json_loads(r).ok
    /\ json_loads(r).value.type = "dict"
    /\ Get(json_loads(r).value.d, "step") = step

\* StepPlan with `break` in place of `continue`
StepPlan_breaks(r) ==
    /\ LLMCall
    /\ reply' = r
    /\ IsStep(r, {"plan"})
    /\ LET parsed == json_loads(r).value
       IN  /\ messages' = Append(messages, ParsedMessage(parsed))
           /\ IF "content" \in DOMAIN parsed.d
              THEN /\ ui' = Append(ui, Notice("info", <<"[pin] **Plan**: ">> \o parsed.d.content))
                   /\ Break("running")
              ELSE Abort("KeyError")
    /\ UNCHANGED <<runs, runStart, pending, toolLog>>

\* lines 130-135
StepPlan(r) ==
    /\ LLMCall
    /\ reply' = r
    /\ IsStep(r, {"plan"})
    /\ LET parsed == json_loads(r).value
       IN  /\ messages' = Append(messages, ParsedMessage(parsed))
           /\ IF "content" \in DOMAIN parsed.d
              THEN /\ ui' = Append(ui, Notice("info", <<"[pin] **Plan**: ">> \o parsed.d.content))
                   /\ Continue
              ELSE Abort("KeyError")
    /\ UNCHANGED <<runs, runStart, pending, toolLog>>

\* StepAction that invokes a tool for whatever function the step names
StepAction_any(r) ==
    /\ LLMCall
    /\ reply' = r
    /\ IsStep(r, {"action"})
    /\ LET parsed == json_loads(r).value
           tool_name == Get(parsed.d, "function")
           tool_input == Get(parsed.d, "input")
       IN  /\ messages' = Append(messages, ParsedMessage(parsed))
           /\ IF tool_name # {}
              THEN /\ pc' = "http"
                   /\ pending' = [fn |-> The(tool_name), arg |-> tool_input]
                   /\ toolLog' = Append(toolLog, [fn |-> The(tool_name), arg |-> tool_input,
                                                  url |-> ToolUrl(The(tool_name), tool_input)])
                   /\ UNCHANGED <<status, exc>>
              ELSE /\ Continue
                   /\ UNCHANGED <<pending, toolLog>>
    /\ UNCHANGED <<ui, runs, runStart>>

\* StepAction that treats an unknown tool as an unrecognized step
StepAction_warns(r) ==
    /\ LLMCall
    /\ reply' = r
    /\ IsStep(r, {"action"})
    /\ LET parsed == json_loads(r).value
           tool_name == Get(parsed.d, "function")
           tool_input == Get(parsed.d, "input")
       IN  /\ messages' = Append(messages, ParsedMessage(parsed))
           /\ IF tool_name # {} /\ The(tool_name) \in DOMAIN available_tools
              THEN /\ pc' = "http"
                   /\ pending' = [fn |-> The(tool_name), arg |-> tool_input]
                   /\ toolLog' = Append(toolLog, [fn |-> The(tool_name), arg |-> tool_input,
                                                  url |-> ToolUrl(The(tool_name), tool_input)])
                   /\ UNCHANGED <<status, exc, ui>>
              ELSE /\ ui' = Append(ui, Notice("warning", <<"[warn] Unrecognized step.">>))
                   /\ Break("error-unrecognized")
                   /\ UNCHANGED <<pending, toolLog>>
    /\ UNCHANGED <<runs, runStart>>

\* lines 130-141: an action step; a registered tool is entered up to its requests.get
StepAction(r) ==
    /\ LLMCall
    /\ reply' = r
    /\ IsStep(r, {"action"})
    /\ LET parsed == json_loads(r).value
           tool_name == Get(parsed.d, "function")
           tool_input == Get(parsed.d, "input")
       IN  /\ messages' = Append(messages, ParsedMessage(parsed))
           /\ IF tool_name # {} /\ The(tool_name) \in DOMAIN available_tools
              THEN /\ pc' = "http"
                   /\ pending' = [fn |-> The(tool_name), arg |-> tool_input]
                   /\ toolLog' = Append(toolLog, [fn |-> The(tool_name), arg |-> tool_input,
                                                  url |-> ToolUrl(The(tool_name), tool_input)])
                   /\ UNCHANGED <<status, exc>>
              ELSE /\ Continue
                   /\ UNCHANGED <<pending, toolLog>>
    /\ UNCHANGED <<ui, runs, runStart>>

\* ToolReturn with `break` in place of `continue`
ToolReturn_breaks(http) ==
    /\ pc = "http"
    /\ http \in HttpOutcomes(pending.fn)
    /\ response' = http
    /\ LET result == InvokeTool(pending.fn, pending.arg, http)
       IN  /\ result.kind = "return"
           /\ LET tool_output == result.value
              IN  /\ messages' = Append(messages, ObserveMessage(tool_output))
                  /\ ui' = Append(ui, Notice("success", <<"[sat] **Observation**: ">> \o tool_output))
    /\ Break("output")
    /\ pending' = NoPending
    /\ UNCHANGED <<sent, reply, calls, runs, runStart, toolLog, widgets>>

\* lines 141-147: the tool returns a str, the observe step is appended
ToolReturn(http) ==
    /\ pc = "http"
    /\ http \in HttpOutcomes(pending.fn)
    /\ response' = http
    /\ LET result == InvokeTool(pending.fn, pending.arg, http)
       IN  /\ result.kind = "return"
           /\ LET tool_output == result.value
              IN  /\ messages' = Append(messages, ObserveMessage(tool_output))
                  /\ ui' = Append(ui, Notice("success", <<"[sat] **Observation**: ">> \o tool_output))
    /\ Continue
    /\ pending' = NoPending
    /\ UNCHANGED <<sent, reply, calls, runs, runStart, toolLog, widgets>>

\* line 141: the tool raises, nothing in process_chat catches it
ToolRaise(http) ==
    /\ pc = "http"
    /\ http \in HttpOutcomes(pending.fn)
    /\ response' = http
    /\ LET result == InvokeTool(pending.fn, pending.arg, http)
       IN  /\ result.kind = "raise"
           /\ Abort(result.exc)
    /\ pending' = NoPending
    /\ UNCHANGED <<messages, sent, reply, calls, runs, runStart, toolLog, widgets>>

\* StepOutput with `continue` in place of `break`
StepOutput_continues(r) ==
    /\ LLMCall
    /\ reply' = r
    /\ IsStep(r, {"output"})
    /\ LET parsed == json_loads(r).value
       IN  /\ messages' = Append(messages, ParsedMessage(parsed))
           /\ IF "content" \in DOMAIN parsed.d
              THEN /\ ui' = Append(ui, Notice("markdown", FinalMarkup(parsed.d.content)))
                   /\ pc' = "call"
                   /\ status' = "output"
                   /\ UNCHANGED exc
              ELSE Abort("KeyError")
    /\ UNCHANGED <<runs, runStart, pending, toolLog>>

\* lines 130-131, 149-155
StepOutput(r) ==
    /\ LLMCall
    /\ reply' = r
    /\ IsStep(r, {"output"})
    /\ LET parsed == json_loads(r).value
       IN  /\ messages' = Append(messages, ParsedMessage(parsed))
           /\ IF "content" \in DOMAIN parsed.d
              THEN /\ ui' = Append(ui, Notice("markdown", FinalMarkup(parsed.d.content)))
                   /\ Break("output")
              ELSE Abort("KeyError")
    /\ UNCHANGED <<runs, runStart, pending, toolLog>>

\* StepOther with `continue` in place of `break`
StepOther_continues(r) ==
    /\ LLMCall
    /\ reply' = r
    /\ json_loads(r).ok
    /\ json_loads(r).value.type = "dict"
    /\ Get(json_loads(r).value.d, "step") \notin {{"plan"}, {"action"}, {"output"}}
    /\ LET parsed == json_loads(r).value
       IN  messages' = Append(messages, ParsedMessage(parsed))
    /\ ui' = Append(ui, Notice("warning", <<"[warn] Unrecognized step.">>))
    /\ Continue
    /\ UNCHANGED <<runs, runStart, pending, toolLog>>

\* lines 130-131, 156-158
StepOther(r) ==
    /\ LLMCall
    /\ reply' = r
    /\ json_loads(r).ok
    /\ json_loads(r).value.type = "dict"
    /\ Get(json_loads(r).value.d, "step") \notin {{"plan"}, {"action"}, {"output"}}
    /\ LET parsed == json_loads(r).value
       IN  messages' = Append(messages, ParsedMessage(parsed))
    /\ ui' = Append(ui, Notice("warning", <<"[warn] Unrecognized step.">>))
    /\ Break("error-unrecognized")
    /\ UNCHANGED <<runs, runStart, pending, toolLog>>

Next ==
    \/ \E ask_btn \in BOOLEAN, user_query \in Queries : Submit(ask_btn, user_query)
    \/ \E ask_btn \in BOOLEAN, user_query \in Queries : NoSubmit(ask_btn, user_query)
    \/ LLMFault
    \/ \E r \in Replies : ReplyNotStr(r)
    \/ \E r \in Replies : ReplyNotJSON(r)
    \/ \E r \in Replies : ReplyNotDict(r)
    \/ \E r \in Replies : StepPlan(r)
    \/ \E r \in Replies : StepAction(r)
    \/ \E r \in Replies : StepOutput(r)
    \/ \E r \in Replies : StepOther(r)
    \/ \E http \in WeatherOutcomes \cup SearchOutcomes : ToolReturn(http)
    \/ \E http \in WeatherOutcomes \cup SearchOutcomes : ToolRaise(http)

Spec == Init /\ [][Next]_vars

----------------------------------------------------------------------------
(* Properties of the dialogue loop *)

\* the dict a reply parses to
Parsed(r) == json_loads(r).value

\* r is a JSON object with the given step and a content
HasStepAndContent(r, step) == IsStep(r, {step}) /\ "content" \in DOMAIN Parsed(r).d

\* r is an action step naming a registered tool
IsRegisteredAction(r) ==
    /\ IsStep(r, {"action"})
    /\ "function" \in DOMAIN Parsed(r).d
    /\ Parsed(r).d.function \in DOMAIN available_tools

\* the step a Message holds, "" when it holds no JSON object with a str step
StepOf(msg) ==
    IF msg.content.json /\ msg.content.value.type = "dict"
          /\ "step" \in DOMAIN msg.content.value.d
    THEN msg.content.value.d.step
    ELSE ""

\* this step is a loop iteration whose LLM call returned a reply
Iteration == calls' = calls + 1 /\ reply' # Unset

\* no final answer is on the page
NoFinalAnswer(notices) == \A i \in 1..Len(notices) : notices[i].kind # "markdown"

\* C1: an iteration whose reply is a plan step with a content appends exactly
\* one assistant Message, the serialized step, invokes no tool, surfaces no
\* final answer and leaves the loop at its next LLM call; the loop at an LLM
\* call does nothing but issue that one call.
C1_PlanContinues ==
    [][/\ (Iteration /\ HasStepAndContent(reply', "plan")) =>
            /\ messages' = Append(messages, Msg("assistant", JsonText("python", Parsed(reply'))))
            /\ toolLog' = toolLog
            /\ pending' = NoPending
            /\ NoFinalAnswer(ui')
            /\ pc' = "call"
            /\ status' = "running"
       /\ pc = "call" => calls' = calls + 1]_vars

\* a plan written in another layout than json.dumps' was answered and the loop goes on
C1_Witness ==
    /\ pc = "call"
    /\ reply \in PlanReplies
    /\ reply.layout = "indented"
    /\ Last(messages).content # reply
    /\ Last(messages).content.value = Parsed(reply)

\* C2: an iteration whose reply is an action step naming a registered tool F
\* enters exactly that tool, once, with the step's input, right after the
\* serialized action step was appended; when the tool returns R, the observe
\* step with content R is appended directly after the action step and the
\* loop is at its next LLM call.
C2_ActionObserved ==
    [][/\ (Iteration /\ IsRegisteredAction(reply')) =>
            /\ messages' = Append(messages, Msg("assistant", JsonText("python", Parsed(reply'))))
            /\ pc' = "http"
            /\ Len(toolLog') = Len(toolLog) + 1
            /\ Last(toolLog').fn = Parsed(reply').d.function
            /\ Last(toolLog').arg = Get(Parsed(reply').d, "input")
            /\ pending' = [fn |-> Parsed(reply').d.function, arg |-> Get(Parsed(reply').d, "input")]
       /\ (pc = "http" /\ pc' = "call") =>
            LET F == Parsed(reply).d.function
                I == Get(Parsed(reply).d, "input")
                R == IF F = "get_weather" THEN get_weather(I, response')
                                          ELSE google_search(I, response')
            IN  /\ R.kind = "return"
                /\ Last(messages) = Msg("assistant", JsonText("python", Parsed(reply)))
                /\ messages' = Append(messages,
                       Msg("assistant",
                           JsonText("python", Dict([step |-> "observe", content |-> R.value]))))
                /\ toolLog' = toolLog
                /\ calls' = calls]_vars

\* both tools have returned a result that stands as the observe step
C2_Witness ==
    /\ pc = "call"
    /\ Len(toolLog) >= 2
    /\ toolLog[1].fn # toolLog[2].fn
    /\ response # NoResponse
    /\ StepOf(Last(messages)) = "observe"

\* C3: an iteration whose reply is an output step with content C ends the
\* run: the final answer shown is C, the serialized output step is the last
\* Message, and until a new submit there is no LLM call, tool invocation or
\* append.
C3_OutputTerminates ==
    [][/\ (Iteration /\ HasStepAndContent(reply', "output")) =>
            /\ status' = "output"
            /\ pc' = "idle"
            /\ messages' = Append(messages, Msg("assistant", JsonText("python", Parsed(reply'))))
            /\ Last(ui') = Notice("markdown", FinalMarkup(Parsed(reply').d.content))
            /\ toolLog' = toolLog
            /\ pending' = NoPending
       /\ status = "output" =>
            /\ calls' = calls
            /\ toolLog' = toolLog
            /\ (messages' = messages \/ runs' = runs + 1)]_vars

\* a run has ended on an output step that came after a tool call
C3_Witness ==
    /\ status = "output"
    /\ pc = "idle"
    /\ Len(messages) >= runStart + 3
    /\ StepOf(Last(messages)) = "output"
    /\ reply.layout = "indented"

\* C4: an iteration whose reply is not a JSON document ends the run after
\* that one parse attempt: the raw reply is appended unchanged and is the
\* last Message, the parse-error notice is shown, and until a new submit
\* there is no LLM call, tool invocation or append.
C4_ParseErrorTerminates ==
    [][/\ (Iteration /\ reply'.type = "str" /\ ~reply'.json) =>
            /\ status' = "error-parse"
            /\ pc' = "idle"
            /\ messages' = Append(messages, Msg("assistant", reply'))
            /\ Last(ui').kind = "error"
            /\ Len(ui') = Len(ui) + 1
            /\ toolLog' = toolLog
            /\ pending' = NoPending
       /\ status = "error-parse" =>
            /\ calls' = calls
            /\ toolLog' = toolLog
            /\ (messages' = messages \/ runs' = runs + 1)]_vars

\* a run has ended on a reply that is not JSON, kept as the last Message
C4_Witness ==
    /\ status = "error-parse"
    /\ pc = "idle"
    /\ reply \in NonJsonReplies
    /\ Last(messages) = Msg("assistant", reply)
    /\ Last(ui).kind = "error"

\* text is a JSON document of an object of the Step shape
ConformsToStep(text) ==
    /\ text.json
    /\ text.value.type = "dict"
    /\ "step" \in DOMAIN text.value.d
    /\ text.value.d.step \in {"plan", "action", "observe", "output"}
    /\ "content" \in DOMAIN text.value.d

\* the positions of the Messages appended by the current run of process_chat
AppendedInRun == (runStart + 1)..Len(messages)

\* C5 as stated, looked at in the runs where nothing has raised: every
\* assistant Message appended during a run conforms to the Step shape, except
\* the raw text appended right before the loop aborts on a parse failure.
C5_Original ==
    status # "fault" =>
        \A i \in AppendedInRun :
            \/ ConformsToStep(messages[i].content)
            \/ i = Len(messages) /\ status = "error-parse"

\* C5 amended: every Message appended during a run is an assistant Message
\* holding a JSON document as json.dumps writes it, except the raw text
\* appended right before the loop aborts on a parse failure.
C5_AppendedIsJson ==
    \A i \in AppendedInRun :
        /\ messages[i].role = "assistant"
        /\ \/ messages[i].content.json /\ messages[i].content.layout = "python"
           \/ i = Len(messages) /\ status = "error-parse" /\ pc = "idle"

\* a run that appended a JSON document and an observe step has aborted on a raw reply
C5_Witness ==
    /\ status = "error-parse"
    /\ Len(messages) = runStart + 3
    /\ ~ConformsToStep(messages[runStart + 1].content)
    /\ ConformsToStep(messages[runStart + 2].content)
    /\ ~Last(messages).content.json

\* C6: the Conversation is append-only: whatever step the session takes, the
\* Conversation before it is a prefix of the Conversation after it.
C6_AppendOnly == [][IsPrefix(messages, messages')]_vars

\* a second run has appended to the Conversation the first run left
C6_Witness ==
    /\ runs = 2
    /\ pc = "idle"
    /\ Len(messages) >= runStart + 1
    /\ runStart >= 4
    /\ messages[1].role = "system"

\* C7: every LLM call is given the fixed model and temperature and the whole
\* Conversation as it stands when the call is made, in order.
C7_FullConversationSent ==
    [][calls' = calls + 1 =>
          /\ sent'.model = "gpt-4o"
          /\ sent'.temperature = "0.5"
          /\ Len(sent'.messages) = Len(messages)
          /\ \A i \in 1..Len(messages) : sent'.messages[i] = messages[i]]_vars

\* the call after a tool call was given the system prompt, the query, the
\* action step and the observe step
C7_Witness ==
    /\ calls = 2
    /\ Len(sent.messages) = 4
    /\ sent.messages[1].role = "system"
    /\ sent.messages[2].role = "user"
    /\ StepOf(sent.messages[3]) = "action"
    /\ StepOf(sent.messages[4]) = "observe"

\* C8: an LLM call that fails ends the run as a fault and appends nothing,
\* so the Conversation stays as it was sent; until a new submit there is no
\* LLM call, no tool invocation and no append.
C8_LLMFaultAborts ==
    /\ []((status = "fault" /\ exc = "APIError") =>
            /\ pc = "idle"
            /\ messages = sent.messages
            /\ pending = NoPending)
    /\ [][/\ (calls' = calls + 1 /\ reply' = Unset) =>
               /\ status' = "fault"
               /\ exc' = "APIError"
               /\ pc' = "idle"
               /\ messages' = messages
               /\ toolLog' = toolLog
          /\ status = "fault" =>
               /\ calls' = calls
               /\ toolLog' = toolLog
               /\ (messages' = messages \/ runs' = runs + 1)]_vars

\* the second LLM call of a run failed after the run had appended Messages
C8_Witness ==
    /\ status = "fault"
    /\ exc = "APIError"
    /\ calls = 2
    /\ Len(messages) > runStart
    /\ messages = sent.messages

\* C9 as stated: when the HTTP call of a tool fails (a status other than 200
\* or a failure of the transport) the tool still returns, the result is
\* appended as an observe step and the loop is at its next LLM call.
C9_ToolFailureObserved ==
    [][(pc = "http" /\ (response'.raised \/ response'.status_code # 200)) =>
          /\ pc' = "call"
          /\ status' = "running"
          /\ Len(messages') = Len(messages) + 1
          /\ StepOf(Last(messages')) = "observe"]_vars

\* get_weather has just returned to the loop for a city that is a str
WeatherReturned ==
    /\ pc = "call"
    /\ response # NoResponse
    /\ Last(toolLog).fn = "get_weather"
    /\ Last(toolLog).arg # {}

\* f"[wx] The weather in **{city}** is [bq]{body}[bq]."
WeatherSentence(city, body) ==
    <<"[wx] The weather in **">> \o city \o <<"** is [bq]">> \o body \o <<"[bq].">>

\* the content of the observe step that stands last in the Conversation
ObservedContent == Last(messages).content.value.d.content

\* get_weather raises only when requests.get does
WeatherRaisesOnlyOnTransport ==
    (pc = "idle" /\ status = "fault" /\ response # NoResponse
        /\ Last(toolLog).fn = "get_weather") => response.raised

\* C10 as stated: on HTTP 200 get_weather returns the sentence embedding city
\* and the response body, on any other status the fixed failure message, and
\* in both cases it returns and does not raise.
C10_Original ==
    /\ WeatherReturned =>
          ObservedContent =
              IF response.status_code = 200
              THEN WeatherSentence(The(Last(toolLog).arg), response.text)
              ELSE <<"[x] Unable to fetch weather at the moment.">>
    /\ WeatherRaisesOnlyOnTransport

\* text without its leading and trailing whitespace: the part of text that
\* has only whitespace before and after it and none at its own two ends
Stripped(text) ==
    {SubSeq(text, i, j) : <<i, j>> \in
        {p \in (1..(Len(text) + 1)) \X (0..Len(text)) :
            /\ p[1] <= p[2] + 1
            /\ \A k \in 1..(p[1] - 1) : text[k] \in Whitespace
            /\ \A k \in (p[2] + 1)..Len(text) : text[k] \in Whitespace
            /\ p[1] <= p[2] => (text[p[1]] \notin Whitespace /\ text[p[2]] \notin Whitespace)}}

\* C10 amended: on HTTP 200 get_weather returns the sentence embedding city
\* and the response body without its leading and trailing whitespace, on any
\* other status the fixed failure message, and in both cases it returns and
\* does not raise.
C10_WeatherResult ==
    /\ WeatherReturned =>
          IF response.status_code = 200
          THEN \E body \in Stripped(response.text) :
                   ObservedContent = WeatherSentence(The(Last(toolLog).arg), body)
          ELSE ObservedContent = <<"[x] Unable to fetch weather at the moment.">>
    /\ WeatherRaisesOnlyOnTransport

\* get_weather("Lahore") has returned for a 200 response whose body is padded
C10_Witness ==
    /\ WeatherReturned
    /\ Last(toolLog).arg = {<<"Lahore">>}
    /\ response.status_code = 200
    /\ Head(response.text) \in Whitespace
    /\ Last(response.text) \in Whitespace


\* google_search has just returned to the loop
SearchReturned ==
    /\ pc = "call"
    /\ response # NoResponse
    /\ Last(toolLog).fn = "google_search"

\* the two-line block of the item at position i of the items list
ItemBlock(items, i) ==
    <<"[*] **">> \o items[i].title \o <<"**", "\n", "[link] ">> \o items[i].link

\* the items list of a JSON response body, empty when the body has no "items"
ItemsOf(data) == IF "items" \in DOMAIN data THEN data.items ELSE <<>>

\* C11: on HTTP 200 with an items list of n entries google_search returns the
\* blocks of the first min(n, 3) items, in their order, with a blank line
\* between two blocks, and "No results found." when n = 0 or there is no
\* items list; on another status it returns the text holding the status code
\* and the body.
C11_SearchResult ==
    SearchReturned =>
        IF response.status_code = 200
        THEN LET items == ItemsOf(The(response.json))
                 n == Len(items)
             IN  ObservedContent =
                    IF n = 0 THEN <<"No results found.">>
                    ELSE ItemBlock(items, 1)
                         \o (IF n >= 2 THEN <<"\n", "\n">> \o ItemBlock(items, 2) ELSE <<>>)
                         \o (IF n >= 3 THEN <<"\n", "\n">> \o ItemBlock(items, 3) ELSE <<>>)
        ELSE ObservedContent =
                <<"[x] Search failed: ", ToString(response.status_code), " - ">> \o response.text

\* google_search has returned for a 200 response that lists more than three items
C11_Witness ==
    /\ SearchReturned
    /\ response.status_code = 200
    /\ Len(ItemsOf(The(response.json))) > 3
    /\ Len(ObservedContent) > 10


\* r is a JSON document that is no object, or a plan or output object
\* without a content
IsJsonOffShape(r) ==
    /\ r.type = "str"
    /\ r.json
    /\ \/ r.value.type # "dict"
       \/ /\ Get(r.value.d, "step") \in {{"plan"}, {"output"}}
          /\ "content" \notin DOMAIN r.value.d

\* C12 as stated: a reply that is valid JSON but of another shape than a Step
\* (a JSON string or array, a plan or output object without content) ends
\* the run as a parse error: the raw reply is kept as the assistant Message,
\* the user is notified and nothing is raised.
C12_OffShapeIsParseError ==
    [][(Iteration /\ IsJsonOffShape(reply')) =>
          /\ status' = "error-parse"
          /\ exc' = "none"
          /\ pc' = "idle"
          /\ messages' = Append(messages, Msg("assistant", reply'))
          /\ Last(ui').kind = "error"]_vars


\* r is a JSON object whose step is none of plan, action, output, or is missing
IsOtherStep(r) ==
    /\ r.type = "str"
    /\ r.json
    /\ r.value.type = "dict"
    /\ \A step \in {"plan", "action", "output"} : Get(r.value.d, "step") # {step}

\* C13: an iteration whose reply is a JSON object with a step other than
\* plan, action, output (or with none) appends the serialized reply as one
\* assistant Message, shows the generic warning and ends the run without
\* raising; until a new submit there is no LLM call, tool invocation or append.
C13_OtherStepTerminates ==
    [][/\ (Iteration /\ IsOtherStep(reply')) =>
            /\ messages' = Append(messages, Msg("assistant", JsonText("python", reply'.value)))
            /\ Len(ui') = Len(ui) + 1
            /\ Last(ui') = Notice("warning", <<"[warn] Unrecognized step.">>)
            /\ status' = "error-unrecognized"
            /\ exc' = "none"
            /\ pc' = "idle"
            /\ toolLog' = toolLog
            /\ pending' = NoPending
       /\ status = "error-unrecognized" =>
            /\ calls' = calls
            /\ toolLog' = toolLog
            /\ (messages' = messages \/ runs' = runs + 1)]_vars

\* a run has ended on a reply without a step, stored re-serialized
C13_Witness ==
    /\ status = "error-unrecognized"
    /\ pc = "idle"
    /\ reply.json
    /\ "step" \notin DOMAIN reply.value.d
    /\ Last(messages).content # reply
    /\ Last(messages).content.value = reply.value
    /\ Last(ui).kind = "warning"


\* this step appends one Message, and that Message holds an observe step
ObserveAppended ==
    /\ Len(messages') = Len(messages) + 1
    /\ StepOf(Last(messages')) = "observe"

IsUnregisteredAction(r) == IsStep(r, {"action"}) /\ ~IsRegisteredAction(r)

C16_OneCallOneTool ==
    [][/\ pc = "call" => calls' = calls + 1
       /\ pc # "call" => calls' = calls
       /\ toolLog' # toolLog =>
            /\ Iteration
            /\ IsRegisteredAction(reply')
            /\ toolLog' = Append(toolLog, Last(toolLog'))
            /\ Last(toolLog').fn = Parsed(reply').d.function
            /\ pc' = "http"
       /\ pc' = "http" => (pc = "call" /\ Len(toolLog') = Len(toolLog) + 1)
       /\ pc = "http" =>
            /\ toolLog' = toolLog
            /\ pc' # "http"
            /\ \/ pc' = "call" /\ Len(messages') = Len(messages) + 1
                    /\ SubSeq(messages', 1, Len(messages)) = messages
                    /\ StepOf(Last(messages')) = "observe"
               \/ pc' = "idle" /\ status' = "fault" /\ messages' = messages]_vars

\* the second iteration of a run has a tool call in flight, after a first
\* iteration that invoked none
C16_Witness ==
    /\ pc = "http"
    /\ calls = 2
    /\ Len(toolLog) = 1
    /\ Len(messages) = runStart + 2
    /\ StepOf(Last(messages)) = "action"
    /\ pending.fn = Last(toolLog).fn


\* C17 as stated, for the iterations whose LLM call returned a reply: the run
\* goes on after every plan reply and every action reply, and it stops at
\* every other reply (an output step, another or no step value, a reply that
\* is no JSON object), so it stops at the first such reply and not before.
C17_StopsAtFirstTerminalReply ==
    [][Iteration =>
          IF IsStep(reply', {"plan"}) \/ IsStep(reply', {"action"})
          THEN status' = "running" /\ pc' \in {"call", "http"}
          ELSE status' # "running" /\ pc' = "idle"]_vars


\* the positions of the Messages with the given role
WithRole(role) == {i \in 1..Len(messages) : messages[i].role = role}

\* C18: the Conversation always holds exactly one system Message, the
\* system prompt, at its first position; a user Message is appended only by
\* a submit, one per run and before any LLM call of the run, and every
\* Message the loop appends has the role assistant.
C18_Roles ==
    /\ [](/\ messages[1] = Msg("system", system_prompt)
          /\ WithRole("system") = {1}
          /\ Cardinality(WithRole("user")) = runs
          /\ WithRole("assistant") = (2..Len(messages)) \ WithRole("user")
          /\ pc # "idle" =>
                /\ messages[runStart].role = "user"
                /\ \A i \in AppendedInRun : messages[i].role = "assistant")
    /\ [][Len(messages') > Len(messages) =>
            /\ Len(messages') = Len(messages) + 1
            /\ IF pc = "idle"
               THEN /\ Last(messages').role = "user"
                    /\ runs' = runs + 1
                    /\ calls' = calls
                    /\ pc' = "call"
               ELSE /\ Last(messages').role = "assistant"
                    /\ runs' = runs]_vars

\* two runs have each appended their query and Messages of the loop
C18_Witness ==
    /\ runs = 2
    /\ calls = 2
    /\ Cardinality(WithRole("user")) = 2
    /\ Cardinality(WithRole("assistant")) >= 3
    /\ messages[2].role = "user"
    /\ messages[runStart].role = "user"
    /\ runStart > 3


\* C19: a script run that finds the Ask button not pressed or the query
\* empty starts no run of the loop: the Conversation is left as it is, no
\* LLM call is issued and no tool is invoked; a run starts only when the
\* button is pressed on a query that is not empty, which it appends.
C19_NoSubmitNoRun ==
    [][pc = "idle" =>
          IF widgets'.ask_btn /\ Truthy(widgets'.user_query)
          THEN /\ messages' = Append(messages, Msg("user", widgets'.user_query))
               /\ runs' = runs + 1
               /\ pc' = "call"
          ELSE /\ messages' = messages
               /\ calls' = calls
               /\ sent' = sent
               /\ toolLog' = toolLog
               /\ pending' = pending
               /\ runs' = runs
               /\ pc' = "idle"
               /\ status' = "none"]_vars

\* after a run, the Ask button was pressed on an empty query and nothing ran
C19_Witness ==
    /\ pc = "idle"
    /\ status = "none"
    /\ widgets.ask_btn
    /\ ~Truthy(widgets.user_query)
    /\ runs = 1
    /\ calls >= 1
    /\ Last(messages).role = "assistant"

====
